---------------------------- MODULE Spec2Model ----------------------------
(***************************************************************************)
(* A model of the Barycentre application (src/app.py): the friend          *)
(* registry kept in the session, the friends URL parameter and its JSON  *)
(* encoding, the memoised geocoding and routing lookups, and the           *)
(* barycentre computed on every script run.                                *)
(*                                                                         *)
(* Python strings are sequences of code points (integers).  Python values  *)
(* that travel through JSON are tagged records (JNull, JBool, JInt, JStr,  *)
(* JList, JDict).                                                          *)
(***************************************************************************)
EXTENDS Integers, Sequences, FiniteSets, TLC

-----------------------------------------------------------------------------
(* Characters *)

\* The printable ASCII characters, code points 32 .. 126, in order (code
\* point 96, the grave accent, is written by name).
AsciiTable ==
  << " ", "!", "\"", "#", "$", "%", "&", "'", "(", ")", "*", "+", ",", "-",
     ".", "/", "0", "1", "2", "3", "4", "5", "6", "7", "8", "9", ":", ";",
     "<", "=", ">", "?", "@", "A", "B", "C", "D", "E", "F", "G", "H", "I",
     "J", "K", "L", "M", "N", "O", "P", "Q", "R", "S", "T", "U", "V", "W",
     "X", "Y", "Z", "[", "\\", "]", "^", "_", "grave", "a", "b", "c", "d", "e",
     "f", "g", "h", "i", "j", "k", "l", "m", "n", "o", "p", "q", "r", "s",
     "t", "u", "v", "w", "x", "y", "z", "{", "|", "}", "~" >>

\* The code point of a printable ASCII character written as a literal.
Ord(c) == 31 + (CHOOSE k \in 1..Len(AsciiTable) : AsciiTable[k] = c)

\* A Python string from a tuple of one-character literals.
S(t) == [k \in 1..Len(t) |-> Ord(t[k])]

QUOTE     == Ord("\"")
BACKSLASH == Ord("\\")
SPACE     == Ord(" ")
LOWER_U   == Ord("u")
LOWER_N   == Ord("n")
LOWER_R   == Ord("r")
LOWER_T   == Ord("t")
LOWER_B   == Ord("b")
LOWER_F   == Ord("f")
LOWER_A   == Ord("a")
UPPER_A   == Ord("A")
UPPER_F   == Ord("F")
MINUS     == Ord("-")
DIGIT_0   == Ord("0")
DIGIT_9   == Ord("9")
SLASH     == Ord("/")
RBRACKET  == Ord("]")
LBRACKET  == Ord("[")
COMMA     == Ord(",")
COLON     == Ord(":")
RBRACE    == Ord("}")
LBRACE    == Ord("{")
UPPER_P   == Ord("P")
UPPER_L   == Ord("L")
COMMA_SPACE == << COMMA, SPACE >>
COLON_SPACE == << COLON, SPACE >>
WORD_NULL   == S(<<"n","u","l","l">>)
WORD_TRUE   == S(<<"t","r","u","e">>)
WORD_FALSE  == S(<<"f","a","l","s","e">>)
TAB       == SPACE - 23
NEWLINE   == SPACE - 22
RETURN    == SPACE - 19

\* str.isspace for the code points of the model: the ASCII white space
\* (tab, LF, VT, FF, CR, FS..US, space) and NEL, NBSP of Latin-1.
IsSpace(c) == c \in (9..13) \cup (28..32) \cup {133, 160}

RECURSIVE lstrip(_)
lstrip(s) ==
  IF s # << >> /\ IsSpace(Head(s)) THEN lstrip(Tail(s)) ELSE s

RECURSIVE rstrip(_)
rstrip(s) ==
  IF s # << >> /\ IsSpace(s[Len(s)]) THEN rstrip(SubSeq(s, 1, Len(s) - 1))
  ELSE s

\* str.strip(): white space removed at both ends.
strip(s) == rstrip(lstrip(s))

-----------------------------------------------------------------------------
(* Python values that JSON carries *)

JNull     == [t |-> "null"]
JBool(b)  == [t |-> "bool", b |-> b]
JInt(n)   == [t |-> "int", n |-> n]
JStr(s)   == [t |-> "str", s |-> s]
JList(xs) == [t |-> "list", items |-> xs]
\* A dict: its items in insertion order, keys (strings) distinct.
JDict(kv) == [t |-> "dict", pairs |-> kv]

Pair(k, v) == [k |-> k, v |-> v]

SeqsUpTo(set, n) == UNION { [1..k -> set] : k \in 0..n }

\* Python truthiness of a value (if x, x or y, a and b).
Truthy(v) ==
  CASE v.t = "null" -> FALSE
    [] v.t = "bool" -> v.b
    [] v.t = "int"  -> v.n # 0
    [] v.t = "str"  -> v.s # << >>
    [] v.t = "list" -> v.items # << >>
    [] v.t = "dict" -> v.pairs # << >>

\* d[k] = v on a dict's items: replaces the value of an existing key in
\* place, appends a new key.
DictSet(kv, k, v) ==
  IF \E j \in 1..Len(kv) : kv[j].k = k
  THEN [j \in 1..Len(kv) |-> IF kv[j].k = k THEN [k |-> k, v |-> v] ELSE kv[j]]
  ELSE Append(kv, [k |-> k, v |-> v])

\* dict.get(k, default)
DictGet(d, k, default) ==
  IF \E j \in 1..Len(d.pairs) : d.pairs[j].k = k
  THEN d.pairs[CHOOSE j \in 1..Len(d.pairs) : d.pairs[j].k = k].v
  ELSE default

-----------------------------------------------------------------------------
(* json.dumps (ensure_ascii, separators ", " and ": ") *)

HexDigits == S(<<"0","1","2","3","4","5","6","7","8","9","a","b","c","d","e","f">>)

\* '\\u{0:04x}'.format(n)
EscapeU(n) ==
  << BACKSLASH, LOWER_U,
     HexDigits[((n \div 4096) % 16) + 1], HexDigits[((n \div 256) % 16) + 1],
     HexDigits[((n \div 16) % 16) + 1],  HexDigits[(n % 16) + 1] >>

\* The replacement of one character inside a JSON string literal.
EscapeChar(c) ==
  CASE c = QUOTE     -> << BACKSLASH, QUOTE >>
    [] c = BACKSLASH -> << BACKSLASH, BACKSLASH >>
    [] c = NEWLINE   -> << BACKSLASH, LOWER_N >>
    [] c = RETURN    -> << BACKSLASH, LOWER_R >>
    [] c = TAB       -> << BACKSLASH, LOWER_T >>
    [] c = 8         -> << BACKSLASH, LOWER_B >>
    [] c = 12        -> << BACKSLASH, LOWER_F >>
    [] c >= 65536    -> EscapeU(55296 + (((c - 65536) \div 1024) % 1024))
                          \o EscapeU(56320 + ((c - 65536) % 1024))
    [] c < 32 \/ c > 126 -> EscapeU(c)
    [] OTHER         -> << c >>

RECURSIVE EscapeChars(_)
EscapeChars(s) ==
  IF s = << >> THEN << >> ELSE EscapeChar(Head(s)) \o EscapeChars(Tail(s))

\* py_encode_basestring_ascii
EncodeString(s) == << QUOTE >> \o EscapeChars(s) \o << QUOTE >>

RECURSIVE Digits(_)
Digits(n) ==
  IF n < 10 THEN << HexDigits[n + 1] >>
  ELSE Append(Digits(n \div 10), HexDigits[(n % 10) + 1])

EncodeInt(n) == IF n < 0 THEN << MINUS >> \o Digits(-n) ELSE Digits(n)

RECURSIVE json_dumps(_)
RECURSIVE DumpItems(_)
RECURSIVE DumpPairs(_)
DumpItems(xs) ==
  IF xs = << >> THEN << >>
  ELSE json_dumps(Head(xs))
         \o (IF Len(xs) > 1 THEN COMMA_SPACE ELSE << >>)
         \o DumpItems(Tail(xs))

DumpPairs(kv) ==
  IF kv = << >> THEN << >>
  ELSE EncodeString(Head(kv).k) \o COLON_SPACE \o json_dumps(Head(kv).v)
         \o (IF Len(kv) > 1 THEN COMMA_SPACE ELSE << >>)
         \o DumpPairs(Tail(kv))

json_dumps(v) ==
  CASE v.t = "null" -> WORD_NULL
    [] v.t = "bool" -> IF v.b THEN WORD_TRUE
                              ELSE WORD_FALSE
    [] v.t = "int"  -> EncodeInt(v.n)
    [] v.t = "str"  -> EncodeString(v.s)
    [] v.t = "list" -> << LBRACKET >> \o DumpItems(v.items) \o << RBRACKET >>
    [] v.t = "dict" -> << LBRACE >> \o DumpPairs(v.pairs) \o << RBRACE >>

-----------------------------------------------------------------------------
(* json.loads (strict).  Numbers are the integers; a fraction or an        *)
(* exponent is outside the inputs of the model.  A scanner returns         *)
(* [ok, v, i]: the value read and the position after it, or ok = FALSE     *)
(* where Python raises JSONDecodeError.                                    *)

JSONDecodeError == [ok |-> FALSE, v |-> JNull, i |-> 0]
Parsed(v, i)    == [ok |-> TRUE, v |-> v, i |-> i]

\* The character at position i, or -1 past the end (IndexError).
At(s, i) == IF i >= 1 /\ i <= Len(s) THEN s[i] ELSE -1

\* WHITESPACE.match: the first position at or after i that holds no
\* space, tab, LF or CR.
RECURSIVE SkipWs(_, _)
SkipWs(s, i) ==
  IF At(s, i) \in {SPACE, TAB, NEWLINE, RETURN} THEN SkipWs(s, i + 1) ELSE i

IsDigit(c) == c >= DIGIT_0 /\ c <= DIGIT_9

\* The value of a hexadecimal digit, -1 for any other character.
HexVal(c) ==
  CASE IsDigit(c)                   -> c - DIGIT_0
    [] c >= LOWER_A /\ c <= LOWER_F -> c - LOWER_A + 10
    [] c >= UPPER_A /\ c <= UPPER_F -> c - UPPER_A + 10
    [] OTHER                        -> -1

HexWord(a, b, c, d) ==
  IF a < 0 \/ b < 0 \/ c < 0 \/ d < 0 THEN -1
  ELSE a * 4096 + b * 256 + c * 16 + d

\* _decode_uXXXX: the code unit of the four hex digits at i .. i+3, or -1.
DecodeU(s, i) ==
  HexWord(HexVal(At(s, i)), HexVal(At(s, i + 1)),
          HexVal(At(s, i + 2)), HexVal(At(s, i + 3)))

\* BACKSLASH: the character a one-letter escape stands for, or -1.
Unescape(c) ==
  CASE c = QUOTE     -> QUOTE
    [] c = BACKSLASH -> BACKSLASH
    [] c = SLASH     -> SLASH
    [] c = LOWER_B   -> 8
    [] c = LOWER_F   -> 12
    [] c = LOWER_N   -> NEWLINE
    [] c = LOWER_R   -> RETURN
    [] c = LOWER_T   -> TAB
    [] OTHER         -> -1

\* py_scanstring from position i, just after the opening quote; acc is the
\* text read so far.
RECURSIVE ScanString(_, _, _)
RECURSIVE ScanChar(_, _, _, _)
RECURSIVE ScanEscape(_, _, _, _)
RECURSIVE ScanUnicode(_, _, _, _)
RECURSIVE ScanSurrogate(_, _, _, _, _)
RECURSIVE ScanUnescaped(_, _, _, _)

\* A \uXXXX escape at i whose code unit u is a high surrogate, followed by
\* an escape of code unit low: one character when low is a low surrogate.
ScanSurrogate(s, i, acc, u, low) ==
  IF low >= 56320 /\ low <= 57343
  THEN ScanString(s, i + 12,
                  Append(acc, 65536 + (u - 55296) * 1024 + (low - 56320)))
  ELSE ScanString(s, i + 6, Append(acc, u))

\* A \uXXXX escape at i of code unit u (-1: no four hex digits).
ScanUnicode(s, i, acc, u) ==
  CASE u < 0 -> JSONDecodeError
    [] /\ u >= 55296 /\ u <= 56319
       /\ At(s, i + 6) = BACKSLASH /\ At(s, i + 7) = LOWER_U ->
         ScanSurrogate(s, i, acc, u, DecodeU(s, i + 8))
    [] OTHER -> ScanString(s, i + 6, Append(acc, u))

\* A one-letter escape at i that stands for c (-1: no such escape).
ScanUnescaped(s, i, acc, c) ==
  IF c < 0 THEN JSONDecodeError ELSE ScanString(s, i + 2, Append(acc, c))

\* A backslash at i, followed by e.
ScanEscape(s, i, acc, e) ==
  IF e = LOWER_U THEN ScanUnicode(s, i, acc, DecodeU(s, i + 2))
  ELSE ScanUnescaped(s, i, acc, Unescape(e))

\* The character c at position i of a string literal.
ScanChar(s, i, acc, c) ==
  CASE c = QUOTE     -> Parsed(JStr(acc), i + 1)
    [] c = BACKSLASH -> ScanEscape(s, i, acc, At(s, i + 1))
    [] c < 32        -> JSONDecodeError  \* the end, or a control character
    [] OTHER         -> ScanString(s, i + 1, Append(acc, c))

ScanString(s, i, acc) == ScanChar(s, i, acc, At(s, i))

\* The digits from position i on: [n: their value, i: the position after].
RECURSIVE ScanDigits(_, _, _)
ScanDigits(s, i, n) ==
  IF IsDigit(At(s, i)) THEN ScanDigits(s, i + 1, n * 10 + (s[i] - DIGIT_0))
  ELSE [n |-> n, i |-> i]

SignedInt(neg, d) == Parsed(JInt(IF neg THEN -d.n ELSE d.n), d.i)

\* NUMBER_RE, integer part, from the first digit at j: 0|[1-9][0-9]*
ScanUnsigned(s, j, neg) ==
  CASE At(s, j) = DIGIT_0 -> SignedInt(neg, [n |-> 0, i |-> j + 1])
    [] IsDigit(At(s, j))  -> SignedInt(neg, ScanDigits(s, j, 0))
    [] OTHER              -> JSONDecodeError

\* NUMBER_RE, integer part: -?(0|[1-9][0-9]*)
ScanNumber(s, i) ==
  IF At(s, i) = MINUS THEN ScanUnsigned(s, i + 1, TRUE)
  ELSE ScanUnsigned(s, i, FALSE)

IsWord(s, i, w) ==
  i + Len(w) - 1 <= Len(s) /\ SubSeq(s, i, i + Len(w) - 1) = w

RECURSIVE scan_once(_, _)
RECURSIVE JSONArray(_, _, _)
RECURSIVE ArrayNext(_, _, _)
RECURSIVE ArrayItem(_, _, _)
RECURSIVE JSONObject(_, _, _)
RECURSIVE ObjectKey(_, _, _)
RECURSIVE ObjectColon(_, _, _, _)
RECURSIVE ObjectValue(_, _, _, _)
RECURSIVE ObjectNext(_, _, _)

\* After a value of an array: "]" ends it, "," announces the next value.
ArrayNext(s, j, xs) ==
  CASE At(s, j) = RBRACKET -> Parsed(JList(xs), j + 1)
    [] At(s, j) = COMMA    -> JSONArray(s, SkipWs(s, j + 1), xs)
    [] OTHER               -> JSONDecodeError

\* The value r read for an array whose earlier values are acc.
ArrayItem(s, r, acc) ==
  IF r.ok THEN ArrayNext(s, SkipWs(s, r.i), Append(acc, r.v))
  ELSE JSONDecodeError

\* JSONArray from position i, where a value is expected.
JSONArray(s, i, acc) == ArrayItem(s, scan_once(s, i), acc)

\* After a value of an object: "}" ends it, "," announces the next key.
ObjectNext(s, j, kv) ==
  CASE At(s, j) = RBRACE -> Parsed(JDict(kv), j + 1)
    [] At(s, j) = COMMA  -> JSONObject(s, SkipWs(s, j + 1), kv)
    [] OTHER             -> JSONDecodeError

\* The value r read for key k of an object whose earlier items are acc.
ObjectValue(s, k, r, acc) ==
  IF r.ok THEN ObjectNext(s, SkipWs(s, r.i), DictSet(acc, k, r.v))
  ELSE JSONDecodeError

\* Position c after key k and white space: a colon, then the value.
ObjectColon(s, k, c, acc) ==
  IF At(s, c) = COLON
  THEN ObjectValue(s, k, scan_once(s, SkipWs(s, c + 1)), acc)
  ELSE JSONDecodeError

\* The key read for an object.
ObjectKey(s, key, acc) ==
  IF key.ok THEN ObjectColon(s, key.v.s, SkipWs(s, key.i), acc)
  ELSE JSONDecodeError

\* JSONObject from position i, where the opening quote of a key is
\* expected; acc holds the items read so far.
JSONObject(s, i, acc) ==
  IF At(s, i) = QUOTE THEN ObjectKey(s, ScanString(s, i + 1, << >>), acc)
  ELSE JSONDecodeError

\* Position j after "{" and white space.
ObjectOpen(s, j) ==
  IF At(s, j) = RBRACE THEN Parsed(JDict(<< >>), j + 1)
  ELSE JSONObject(s, j, << >>)

\* Position j after "[" and white space.
ArrayOpen(s, j) ==
  IF At(s, j) = RBRACKET THEN Parsed(JList(<< >>), j + 1)
  ELSE JSONArray(s, j, << >>)

\* The value that starts at position i with character c.
ScanValue(s, i, c) ==
  CASE c = QUOTE    -> ScanString(s, i + 1, << >>)
    [] c = LBRACE   -> ObjectOpen(s, SkipWs(s, i + 1))
    [] c = LBRACKET -> ArrayOpen(s, SkipWs(s, i + 1))
    [] c = LOWER_N /\ IsWord(s, i, WORD_NULL)  -> Parsed(JNull, i + 4)
    [] c = LOWER_T /\ IsWord(s, i, WORD_TRUE)  -> Parsed(JBool(TRUE), i + 4)
    [] c = LOWER_F /\ IsWord(s, i, WORD_FALSE) -> Parsed(JBool(FALSE), i + 5)
    [] c = MINUS \/ IsDigit(c) -> ScanNumber(s, i)
    [] OTHER -> JSONDecodeError

\* scan_once: the value that starts at position i.
scan_once(s, i) == ScanValue(s, i, At(s, i))

\* JSONDecoder.decode: the value must be followed by white space only.
DecodeEnd(s, r) ==
  IF r.ok /\ SkipWs(s, r.i) = Len(s) + 1 THEN r ELSE JSONDecodeError

\* json.loads(s)
json_loads(s) == DecodeEnd(s, scan_once(s, SkipWs(s, 1)))

-----------------------------------------------------------------------------
(* State *)

VARIABLES
  query,               \* st.query_params["friends"]: [present, value]
  has_session,         \* "friends" in st.session_state
  friends,             \* st.session_state["friends"]: the registry
  widget,              \* the widget event that started the (last) script run
  pc,                  \* the position of the script run
  i,                   \* the index of the loop the run is in (0-based)
  cache_geocode,       \* the memo of geocode_address: address -> result
  nominatim_calls,     \* per address, the calls made to the geocoding provider
  geocoded,            \* the run's list of resolved entries
  errors,              \* the run's list of entries that failed geocoding
  barycentre,          \* the run's barycentre, or None
  barycentre_address,  \* the run's reverse-geocoded address, or None
  rows,                \* the run's travel table
  codec_in,            \* codec check: the registry or document drawn
  codec_token,         \* codec check: the value of the friends parameter
  codec_out,           \* codec check: what _load_from_url_params returned
  codec_pc,
  route_cache,         \* the memo of get_route_info: coordinates -> result
  osrm_calls,          \* the number of requests sent to the routing provider
  route_call           \* routing check: the last call and what it returned

app_vars   == << query, has_session, friends, widget, pc, i, cache_geocode,
                 nominatim_calls, geocoded, errors, barycentre,
                 barycentre_address, rows >>
codec_vars == << codec_in, codec_token, codec_out, codec_pc >>
route_vars == << route_cache, osrm_calls, route_call >>
vars       == << app_vars, codec_vars, route_vars >>

\* Python's None where a list, a tuple or a string may stand.
None    == [some |-> FALSE]
Some(x) == [some |-> TRUE, val |-> x]

-----------------------------------------------------------------------------
(* The friends URL parameter: src/app.py, lines 84-103 and 148-152 *)

NoParam      == [present |-> FALSE, value |-> << >>]
Param(token) == [present |-> TRUE, value |-> token]

KEY_NAME    == S(<<"n","a","m","e">>)
KEY_ADDRESS == S(<<"a","d","d","r","e","s","s">>)
FRIEND      == S(<<"F","r","i","e","n","d">>)

\* An entry of the registry, the dict {"name": ..., "address": ...}.
Friend(name, address) == [name |-> name, address |-> address]

FriendDict(f) ==
  JDict(<< [k |-> KEY_NAME, v |-> f.name], [k |-> KEY_ADDRESS, v |-> f.address] >>)

\* json.dumps(st.session_state["friends"])
EncodeFriends(fs) == json_dumps(JList([k \in 1..Len(fs) |-> FriendDict(fs[k])]))

\* The filter of the list comprehension: isinstance(f, dict) and
\* f.get("address")
KeepElementNoAddressCheck(f) == f.t = "dict"
KeepElementNeedsName(f) ==
  /\ f.t = "dict"
  /\ Truthy(DictGet(f, KEY_ADDRESS, JNull))
  /\ Truthy(DictGet(f, KEY_NAME, JNull))
KeepElement(f) == f.t = "dict" /\ Truthy(DictGet(f, KEY_ADDRESS, JNull))

\* The element the list comprehension builds from a kept f.
DecodeElementDefaultFriend(f) ==
  Friend(IF Truthy(DictGet(f, KEY_NAME, JStr(<< >>)))
           THEN DictGet(f, KEY_NAME, JStr(<< >>)) ELSE JStr(FRIEND),
         DictGet(f, KEY_ADDRESS, JStr(<< >>)))
DecodeElement(f) ==
  Friend(DictGet(f, KEY_NAME, JStr(<< >>)), DictGet(f, KEY_ADDRESS, JStr(<< >>)))

RECURSIVE DecodeElements(_)
DecodeElements(xs) ==
  IF xs = << >> THEN << >>
  ELSE (IF KeepElement(Head(xs)) THEN << DecodeElement(Head(xs)) >> ELSE << >>)
         \o DecodeElements(Tail(xs))

\* _load_from_url_params(): [some, val, raised]; some is FALSE for None,
\* raised is TRUE where an exception would leave the function.
Returned(some, val) == [some |-> some, val |-> val, raised |-> FALSE]

\* Lines 88-98: r is what json.loads produced.
LoadDecoded(r) ==
  IF r.ok /\ r.v.t = "list" THEN Returned(TRUE, DecodeElements(r.v.items))
  ELSE Returned(FALSE, << >>)

load_from_url_params(params) ==
  IF params.present /\ params.value # << >>
  THEN LoadDecoded(json_loads(params.value))
  ELSE Returned(FALSE, << >>)

\* url_friends if url_friends else []
SeedRegistry(url_friends) ==
  IF url_friends.some /\ url_friends.val # << >> THEN url_friends.val ELSE << >>

\* Lines 126, 148-152: the parameter after the sidebar has run with
\* registry fs.
SyncQueryNeverDeletes(q, fs) == IF fs # << >> THEN Param(EncodeFriends(fs)) ELSE q
SyncQuery(q, fs) == IF fs # << >> THEN Param(EncodeFriends(fs)) ELSE NoParam

-----------------------------------------------------------------------------
(* The sidebar: src/app.py, lines 109-153 *)

NoEvent == [op |-> "none", name |-> << >>, address |-> << >>, index |-> 0]

\* What a handler of the sidebar leaves: the registry, whether it asked
\* for a rerun, and whether an exception left it.
Handled(fs, rerun) == [friends |-> fs, rerun |-> rerun, raised |-> FALSE]
Raised(fs)         == [friends |-> fs, rerun |-> FALSE, raised |-> TRUE]

\* Line 122: the dict the form appends.
NewFriendUntrimmedName(name, address) ==
  Friend(JStr(IF name # << >> THEN name ELSE FRIEND), JStr(strip(address)))
NewFriend(name, address) ==
  Friend(JStr(IF strip(name) # << >> THEN strip(name) ELSE FRIEND),
         JStr(strip(address)))

\* Lines 120-124: the form's handler.
add_friend_form(fs, w) ==
  IF w.op = "add" /\ strip(w.address) # << >>
  THEN Handled(Append(fs, NewFriend(w.name, w.address)), TRUE)
  ELSE Handled(fs, FALSE)

\* list.pop(k), k counted from 0.
Pop(fs, k) == SubSeq(fs, 1, k) \o SubSeq(fs, k + 2, Len(fs))

\* Lines 129-141: the loop over the rendered entries; the button of entry k
\* is the only one a click on remove_k makes true.
RemoveUnguarded(fs, w) ==
  IF w.op = "remove"
  THEN IF w.index < Len(fs) THEN Handled(Pop(fs, w.index), TRUE) ELSE Raised(fs)
  ELSE Handled(fs, FALSE)
remove_buttons(fs, w) ==
  IF w.op = "remove" /\ \E k \in 0..(Len(fs) - 1) : k = w.index
  THEN Handled(Pop(fs, w.index), TRUE)
  ELSE Handled(fs, FALSE)

\* Lines 144-146.
clear_button(fs, w) ==
  IF w.op = "clear" THEN Handled(<< >>, TRUE) ELSE Handled(fs, FALSE)

\* Lines 115-146 in order; st.rerun() ends the run at the first handler
\* that mutates the registry.
sidebar(fs, w) ==
  LET a == add_friend_form(fs, w) IN
  IF a.rerun \/ a.raised \/ fs = << >> THEN a
  ELSE LET r == remove_buttons(fs, w) IN
       IF r.rerun \/ r.raised THEN r ELSE clear_button(fs, w)

-----------------------------------------------------------------------------
(* Geocoding and the barycentre: src/app.py, lines 24-33 and 159-175 *)

\* Coordinates are integers in units of 1/120 degree, so that the mean of
\* up to six of the locations below (multiples of 120) is again an integer of that unit.
ADDRESS_P == JStr(<< UPPER_P >>)
ADDRESS_L == JStr(<< UPPER_L >>)

LocationOf(address) ==
  CASE address = ADDRESS_P -> << 5760, 240 >>      \* (48.0, 2.0)
    [] address = ADDRESS_L -> << 5880, 360 >>      \* (49.0, 3.0)
    [] OTHER                 -> << -4080, 18120 >> \* (-34.0, 151.0)

\* What the geocoding provider may answer for an address: a location, no
\* candidate, a timeout, unavailability or another failure.
NominatimOutcomes(address) ==
  { [kind |-> "location", at |-> LocationOf(address)] }
  \cup { [kind |-> k, at |-> << 0, 0 >>] :
           k \in {"none", "timeout", "unavailable", "error"} }

\* Lines 26-33, given the provider's answer.
geocode_address(outcome) ==
  IF outcome.kind = "location" THEN Some(outcome.at) ELSE None

\* st.cache_data (lines 24, 36, 48): the memo after a miss on key.
CacheStoreSkipsNone(cache, key, result) ==
  IF result.some THEN [k \in DOMAIN cache \cup {key} |->
                         IF k = key THEN result ELSE cache[k]]
  ELSE cache
CacheStore(cache, key, result) ==
  [k \in DOMAIN cache \cup {key} |-> IF k = key THEN result ELSE cache[k]]

EmptyCache == [k \in {} |-> None]

\* Lines 164-167: the two lists after the entry f got coords.
ClassifyDropsFailed(f, coords, g, e) ==
  IF coords.some
  THEN [geocoded |-> Append(g, [name |-> f.name, address |-> f.address,
                                lat |-> coords.val[1], lon |-> coords.val[2]]),
        errors |-> e]
  ELSE [geocoded |-> g, errors |-> e]
Classify(f, coords, g, e) ==
  IF coords.some
  THEN [geocoded |-> Append(g, [name |-> f.name, address |-> f.address,
                                lat |-> coords.val[1], lon |-> coords.val[2]]),
        errors |-> e]
  ELSE [geocoded |-> g, errors |-> Append(e, f)]

RECURSIVE SumLat(_)
SumLat(g) == IF g = << >> THEN 0 ELSE Head(g).lat + SumLat(Tail(g))
RECURSIVE SumLon(_)
SumLon(g) == IF g = << >> THEN 0 ELSE Head(g).lon + SumLon(Tail(g))

\* Lines 169-174.
BarycentreOfAny(g) ==
  IF Len(g) >= 1
  THEN Some(<< SumLat(g) \div Len(g), SumLon(g) \div Len(g) >>)
  ELSE None
Barycentre(g) ==
  IF Len(g) >= 2
  THEN Some(<< SumLat(g) \div Len(g), SumLon(g) \div Len(g) >>)
  ELSE None

\* Lines 38-45, given the provider's answer.
reverse_geocode(outcome) ==
  IF outcome.kind = "location" THEN Some(outcome.address) ELSE None

ReverseOutcomes ==
  { [kind |-> "location", address |-> S(<<"R","u","e">>)],
    [kind |-> "none", address |-> << >>],
    [kind |-> "timeout", address |-> << >>] }

-----------------------------------------------------------------------------
(* Route metrics: src/app.py, lines 48-65 *)

\* floor(log2(num / den)) for num, den > 0.
RECURSIVE Log2Floor(_, _)
Log2Floor(num, den) ==
  CASE num >= 2 * den -> 1 + Log2Floor(num, 2 * den)
    [] num < den      -> Log2Floor(2 * num, den) - 1
    [] OTHER          -> 0

\* 2^e mod 20 for e >= 2.
Pow2Mod20(e) == << 16, 12, 4, 8 >>[(e % 4) + 1]

\* round(metres / 1000, 1), in tenths of a kilometre.  The quotient is an
\* IEEE double: where metres / 1000 lies exactly between two tenths, the
\* double nearest to it lies below or above it as the remainder of
\* (metres / 50) * 2^e by 20 says, e the exponent that gives a 53-bit
\* significand; a quotient that is exact goes to the even tenth.
Round1Truncates(metres) == metres \div 100
Round1(metres) ==
  LET base == metres \div 100
      rem  == metres % 100
  IN CASE rem < 50 -> base
       [] rem > 50 -> base + 1
       [] OTHER ->
            LET e == 52 - Log2Floor(metres, 1000)
                r == (((metres \div 50) % 20) * Pow2Mod20(e)) % 20
            IN CASE r = 0  -> IF base % 2 = 0 THEN base ELSE base + 1
                 [] r < 10 -> base
                 [] OTHER  -> base + 1

\* round(seconds / 60): to the nearest integer, a half to the even one.
RoundMinutes(seconds) ==
  LET base == seconds \div 60
      rem  == seconds % 60
  IN CASE rem < 30 -> base
       [] rem > 30 -> base + 1
       [] OTHER    -> IF base % 2 = 0 THEN base ELSE base + 1

\* Lines 51-65, given what the request produced: a JSON object with code
\* and routes, or a failure (the request, or the decoding of its body).
get_route_info(resp) ==
  IF resp.kind = "json" /\ resp.code = "Ok" /\ resp.routes # << >>
  THEN Some(<< Round1(resp.routes[1].distance),
               RoundMinutes(resp.routes[1].duration) >>)
  ELSE None

-----------------------------------------------------------------------------
(* The script run: src/app.py, top to bottom.  A run starts when the page  *)
(* is opened and after every widget event and every st.rerun().            *)

MaxFriends == 3

\* What the user may put into the form: blank and padded names, blank,
\* white-space-only and padded addresses.
FormInputs ==
  { [name |-> << >>,                       address |-> << SPACE, UPPER_P >>],
    [name |-> << SPACE, UPPER_A, TAB >>,  address |-> << UPPER_L, 160 >>],
    [name |-> S(<<"A">>),                  address |-> << SPACE, TAB >>],
    [name |-> << SPACE >>,                 address |-> << >>] }

\* The friends parameter of the URL the page is opened with: none, an
\* empty one, a shared registry, a partly corrupt one, text that is no
\* JSON, and JSON that is no list.
InitialQueries ==
  { NoParam,
    Param(<< >>),
    Param(EncodeFriends(<< Friend(JStr(S(<<"A">>)), JStr(S(<<"L">>))) >>)),
    Param(json_dumps(JList(<<
        JDict(<< Pair(KEY_NAME, JStr(S(<<"B">>))) >>),
        JDict(<< Pair(KEY_ADDRESS, JStr(S(<<"X">>))) >>) >>))),
    Param(S(<<"[", "{">>)),
    Param(json_dumps(JDict(<< Pair(KEY_ADDRESS, JStr(S(<<"P">>))) >>))) }

NoRunOutput ==
  /\ geocoded' = << >>
  /\ errors' = << >>
  /\ barycentre' = None
  /\ barycentre_address' = None
  /\ rows' = << >>
  /\ i' = 0

AppInit ==
  /\ query \in InitialQueries
  /\ has_session = FALSE
  /\ friends = << >>
  /\ widget = NoEvent
  /\ pc = "start"
  /\ i = 0
  /\ cache_geocode = EmptyCache
  /\ nominatim_calls = [a \in {} |-> 0]
  /\ geocoded = << >>
  /\ errors = << >>
  /\ barycentre = None
  /\ barycentre_address = None
  /\ rows = << >>

\* Lines 101-153: the registry is seeded from the URL in a new session,
\* the sidebar handles the event, and either the run is restarted
\* (st.rerun()) or the URL parameter is synchronised and the run goes on.
SessionFriends ==
  IF has_session THEN friends ELSE SeedRegistry(load_from_url_params(query))

SidebarDone(r) ==
  /\ friends' = r.friends
  /\ query' = IF r.rerun \/ r.raised THEN query ELSE SyncQuery(query, r.friends)
  /\ pc' = CASE r.raised -> "error"
            [] r.rerun  -> "start"
            [] OTHER    -> "geocode"
  \* the run st.rerun() starts has no widget event
  /\ widget' = IF r.rerun THEN NoEvent ELSE widget

Sidebar ==
  /\ pc = "start"
  /\ SidebarDone(sidebar(SessionFriends, widget))
  /\ has_session' = TRUE
  /\ UNCHANGED << i, cache_geocode, nominatim_calls, geocoded, errors,
                  barycentre, barycentre_address, rows >>

\* Lines 162-167, one entry: a hit of the memo, or a call of the provider
\* whose result the memo keeps.
GeocodeHit ==
  /\ pc = "geocode"
  /\ i < Len(friends)
  /\ friends[i + 1].address \in DOMAIN cache_geocode
  /\ LET f == friends[i + 1]
         c == Classify(f, cache_geocode[f.address], geocoded, errors)
     IN /\ geocoded' = c.geocoded
        /\ errors' = c.errors
  /\ i' = i + 1
  /\ UNCHANGED << query, has_session, friends, widget, pc, cache_geocode,
                  nominatim_calls, barycentre, barycentre_address, rows >>

GeocodeMiss ==
  /\ pc = "geocode"
  /\ i < Len(friends)
  /\ friends[i + 1].address \notin DOMAIN cache_geocode
  /\ \E outcome \in NominatimOutcomes(friends[i + 1].address) :
       LET f      == friends[i + 1]
           coords == geocode_address(outcome)
           c      == Classify(f, coords, geocoded, errors)
       IN /\ cache_geocode' = CacheStore(cache_geocode, f.address, coords)
          /\ nominatim_calls' =
               [a \in DOMAIN nominatim_calls \cup {f.address} |->
                  IF a = f.address
                  THEN (IF a \in DOMAIN nominatim_calls
                        THEN nominatim_calls[a] ELSE 0) + 1
                  ELSE nominatim_calls[a]]
          /\ geocoded' = c.geocoded
          /\ errors' = c.errors
  /\ i' = i + 1
  /\ UNCHANGED << query, has_session, friends, widget, pc, barycentre,
                  barycentre_address, rows >>

\* Lines 169-175, once the loop is over.
ComputeBarycentre ==
  /\ pc = "geocode"
  /\ i >= Len(friends)
  /\ barycentre' = Barycentre(geocoded)
  /\ IF barycentre'.some
     THEN \E outcome \in ReverseOutcomes :
            barycentre_address' = reverse_geocode(outcome)
     ELSE barycentre_address' = None
  /\ pc' = "travel"
  /\ i' = 0
  /\ UNCHANGED << query, has_session, friends, widget, cache_geocode,
                  nominatim_calls, geocoded, errors, rows >>

\* What the routing provider may answer in a run of the page.
OsrmAnswers ==
  { [kind |-> "json", code |-> "Ok",
     routes |-> << [distance |-> 5000, duration |-> 600] >>],
    [kind |-> "json", code |-> "NoRoute", routes |-> << >>],
    [kind |-> "urlerror", code |-> "", routes |-> << >>] }

\* Lines 241-248, one row.  The answer is drawn at every lookup: the memo
\* of get_route_info (RouteLookup below) only ever returns one of them.
TravelRow ==
  /\ pc = "travel"
  /\ barycentre.some /\ geocoded # << >>
  /\ i < Len(geocoded)
  /\ \E resp \in OsrmAnswers :
       rows' = Append(rows, [name |-> geocoded[i + 1].name,
                             route |-> get_route_info(resp)])
  /\ i' = i + 1
  /\ UNCHANGED << query, has_session, friends, widget, pc, cache_geocode,
                  nominatim_calls, geocoded, errors, barycentre,
                  barycentre_address >>

\* Lines 249-256: the table and the warnings are shown; the run is over.
EndRun ==
  /\ pc = "travel"
  /\ ~(barycentre.some /\ geocoded # << >>) \/ i >= Len(geocoded)
  /\ pc' = "idle"
  /\ UNCHANGED << query, has_session, friends, widget, i, cache_geocode,
                  nominatim_calls, geocoded, errors, barycentre,
                  barycentre_address, rows >>

\* The user submits the form.
Submit ==
  /\ pc = "idle"
  /\ Len(friends) < MaxFriends
  /\ \E in \in FormInputs :
       widget' = [op |-> "add", name |-> in.name, address |-> in.address,
                  index |-> 0]
  /\ pc' = "start"
  /\ NoRunOutput
  /\ UNCHANGED << query, has_session, friends, cache_geocode, nominatim_calls >>

\* The user clicks a remove button; the page it was rendered on may be
\* older than the registry, so the index may be past its end.
ClickRemove ==
  /\ pc = "idle"
  /\ \E k \in 0..MaxFriends :
       widget' = [op |-> "remove", name |-> << >>, address |-> << >>,
                  index |-> k]
  /\ pc' = "start"
  /\ NoRunOutput
  /\ UNCHANGED << query, has_session, friends, cache_geocode, nominatim_calls >>

\* The user clicks "Clear all".
ClickClear ==
  /\ pc = "idle"
  /\ widget' = [op |-> "clear", name |-> << >>, address |-> << >>, index |-> 0]
  /\ pc' = "start"
  /\ NoRunOutput
  /\ UNCHANGED << query, has_session, friends, cache_geocode, nominatim_calls >>

\* The page is opened again with the URL it has: a new session, the same
\* process and so the same memos.
NewSession ==
  /\ pc = "idle"
  /\ has_session' = FALSE
  /\ friends' = << >>
  /\ widget' = NoEvent
  /\ pc' = "start"
  /\ NoRunOutput
  /\ UNCHANGED << query, cache_geocode, nominatim_calls >>

-----------------------------------------------------------------------------
(* The codec on its own: a registry is encoded and decoded again, and a    *)
(* document, whole or cut short, is decoded.                               *)

MaxRegistry == 2
MaxDocLen   == 2
MaxCut      == 2

\* Names and addresses a registry may hold: empty, ASCII, Latin-1, a quote
\* and a backslash, a code point beyond the BMP, white space, a control
\* character and a currency sign.
CodecNames ==
  { << >>, S(<<"A">>), << 233 >>, << QUOTE, BACKSLASH >>, << 128512 >> }
CodecAddresses ==
  { S(<<"P">>), << SPACE, UPPER_L >>, << NEWLINE, 8364 >> }
CodecFriends ==
  { Friend(JStr(n), JStr(a)) : n \in CodecNames, a \in CodecAddresses }

\* The elements a document's list may hold.
DocElements ==
  { JDict(<< Pair(KEY_NAME, JStr(S(<<"A">>))), Pair(KEY_ADDRESS, JStr(S(<<"X">>))) >>),
    JDict(<< Pair(KEY_NAME, JStr(S(<<"B">>))) >>),
    JDict(<< Pair(KEY_ADDRESS, JStr(<< 233 >>)) >>),
    JDict(<< Pair(KEY_NAME, JStr(S(<<"C">>))), Pair(KEY_ADDRESS, JStr(<< >>)) >>),
    JDict(<< Pair(KEY_ADDRESS, JNull), Pair(KEY_NAME, JStr(S(<<"D">>))) >>),
    JDict(<< Pair(KEY_ADDRESS, JInt(7)), Pair(KEY_NAME, JNull) >>),
    JDict(<< >>),
    JStr(S(<<"s">>)), JInt(-3), JNull, JBool(TRUE),
    JList(<< JStr(S(<<"X">>)) >>) }

\* Documents that are no list.
DocScalars ==
  { JDict(<< Pair(KEY_NAME, JStr(S(<<"A">>))), Pair(KEY_ADDRESS, JStr(S(<<"X">>))) >>),
    JStr(S(<<"X">>)), JInt(0), JInt(12), JNull, JBool(FALSE) }

CodecInputs ==
  { [mode |-> "registry", x |-> x, doc |-> JNull, cut |-> 0] :
      x \in SeqsUpTo(CodecFriends, MaxRegistry) }
  \cup
  { [mode |-> "document", x |-> << >>, doc |-> JList(xs), cut |-> c] :
      xs \in SeqsUpTo(DocElements, MaxDocLen), c \in 0..MaxCut }
  \cup
  { [mode |-> "document", x |-> << >>, doc |-> d, cut |-> 0] : d \in DocScalars }
  \cup
  { [mode |-> "absent", x |-> << >>, doc |-> JNull, cut |-> 0] }

CodecIdle ==
  /\ codec_in = [mode |-> "absent", x |-> << >>, doc |-> JNull, cut |-> 0]
  /\ codec_token = NoParam
  /\ codec_out = [some |-> FALSE, val |-> << >>, raised |-> FALSE]
  /\ codec_pc = "in"

\* The token a shared URL carries: the encoding of a registry (line 149),
\* or a document's text with its last cut characters missing.
CodecWrite ==
  /\ codec_pc = "in"
  /\ codec_token' =
       CASE codec_in.mode = "registry" -> SyncQuery(NoParam, codec_in.x)
         [] codec_in.mode = "document" ->
              LET text == json_dumps(codec_in.doc) IN
              Param(SubSeq(text, 1, Len(text) - codec_in.cut))
         [] OTHER -> NoParam
  /\ codec_pc' = "token"
  /\ UNCHANGED << codec_in, codec_out >>

\* Lines 101-103 on that URL.
CodecRead ==
  /\ codec_pc = "token"
  /\ codec_out' = load_from_url_params(codec_token)
  /\ codec_pc' = "out"
  /\ UNCHANGED << codec_in, codec_token >>

-----------------------------------------------------------------------------
(* The memo of get_route_info on its own: src/app.py, lines 48-65 *)

MaxMetres  == 260
MaxSeconds == 95

RouteKeys == { << 5760, 240, 5820, 300 >>, << 5880, 360, 5820, 300 >> }

\* What the routing provider may answer: distances and durations around
\* the rounding boundaries, the example of 5000 m and 600 s, a status that
\* is not Ok, no route, a request that fails and a body that is no JSON.
RouteDistances == { d \in 0..MaxMetres : d % 50 \in {0, 1, 49} } \cup {5000}
RouteDurations == { t \in 0..MaxSeconds : t % 30 \in {0, 1, 29} } \cup {600}

RouteAnswers ==
  { [kind |-> "json", code |-> "Ok",
     routes |-> << [distance |-> d, duration |-> t] >>] :
      d \in RouteDistances, t \in RouteDurations }
  \cup
  { [kind |-> "json", code |-> "Ok",
     routes |-> << [distance |-> 5000, duration |-> 600],
                   [distance |-> 7000, duration |-> 900] >>],
    [kind |-> "json", code |-> "Ok", routes |-> << >>],
    [kind |-> "json", code |-> "NoRoute", routes |-> << >>],
    [kind |-> "json", code |-> "NoRoute",
     routes |-> << [distance |-> 5000, duration |-> 600] >>],
    [kind |-> "urlerror", code |-> "", routes |-> << >>],
    [kind |-> "badjson", code |-> "", routes |-> << >>] }

NoRouteCall ==
  [key |-> << 0, 0, 0, 0 >>, hit |-> FALSE,
   resp |-> [kind |-> "none", code |-> "", routes |-> << >>], result |-> None]

RouteIdle ==
  /\ route_cache = EmptyCache
  /\ osrm_calls = 0
  /\ route_call = NoRouteCall

\* get_route_info(lat1, lon1, lat2, lon2) behind st.cache_data.
RouteLookup ==
  \E key \in RouteKeys :
    IF key \in DOMAIN route_cache
    THEN /\ route_call' = [key |-> key, hit |-> TRUE, resp |-> NoRouteCall.resp,
                           result |-> route_cache[key]]
         /\ UNCHANGED << route_cache, osrm_calls >>
    ELSE \E resp \in RouteAnswers :
           /\ route_call' = [key |-> key, hit |-> FALSE, resp |-> resp,
                             result |-> get_route_info(resp)]
           /\ route_cache' = CacheStore(route_cache, key, get_route_info(resp))
           /\ osrm_calls' = osrm_calls + 1

-----------------------------------------------------------------------------
(* Specifications *)

Init == AppInit /\ CodecIdle /\ RouteIdle

Next ==
  \/ (Sidebar /\ UNCHANGED << codec_vars, route_vars >>)
  \/ (GeocodeHit /\ UNCHANGED << codec_vars, route_vars >>)
  \/ (GeocodeMiss /\ UNCHANGED << codec_vars, route_vars >>)
  \/ (ComputeBarycentre /\ UNCHANGED << codec_vars, route_vars >>)
  \/ (TravelRow /\ UNCHANGED << codec_vars, route_vars >>)
  \/ (EndRun /\ UNCHANGED << codec_vars, route_vars >>)
  \/ (Submit /\ UNCHANGED << codec_vars, route_vars >>)
  \/ (ClickRemove /\ UNCHANGED << codec_vars, route_vars >>)
  \/ (ClickClear /\ UNCHANGED << codec_vars, route_vars >>)
  \/ (NewSession /\ UNCHANGED << codec_vars, route_vars >>)

\* The page: sessions, widget events and script runs.
Spec == Init /\ [][Next]_vars

AppIdle ==
  /\ query = NoParam
  /\ has_session = FALSE
  /\ friends = << >>
  /\ widget = NoEvent
  /\ pc = "start"
  /\ i = 0
  /\ cache_geocode = EmptyCache
  /\ nominatim_calls = [a \in {} |-> 0]
  /\ geocoded = << >>
  /\ errors = << >>
  /\ barycentre = None
  /\ barycentre_address = None
  /\ rows = << >>

CodecInit ==
  /\ AppIdle /\ RouteIdle
  /\ codec_in \in CodecInputs
  /\ codec_token = NoParam
  /\ codec_out = [some |-> FALSE, val |-> << >>, raised |-> FALSE]
  /\ codec_pc = "in"

CodecNext ==
  \/ (CodecWrite /\ UNCHANGED << app_vars, route_vars >>)
  \/ (CodecRead /\ UNCHANGED << app_vars, route_vars >>)

\* The codec: every input drawn, written to a URL and read back.
SpecCodec == CodecInit /\ [][CodecNext]_vars

RouteInit == AppIdle /\ CodecIdle /\ RouteIdle

RouteNext == RouteLookup /\ UNCHANGED << app_vars, codec_vars >>

\* The routing lookups of a process.
SpecRoute == RouteInit /\ [][RouteNext]_vars

-----------------------------------------------------------------------------
(* Properties *)

\* The entries of the registry whose address the memo holds coordinates for.
ResolvedAt(k) ==
  /\ friends[k].address \in DOMAIN cache_geocode
  /\ cache_geocode[friends[k].address].some

ResolvedSet == { k \in 1..Len(friends) : ResolvedAt(k) }
FailedSet   == { k \in 1..Len(friends) : ~ResolvedAt(k) }

\* The position of k among the members of set, in increasing order.
Rank(k, set) == Cardinality({ j \in set : j <= k })

\* The sum of coordinate c (1: latitude, 2: longitude) over the resolved
\* entries among the first k.
RECURSIVE SumResolved(_, _)
SumResolved(k, c) ==
  IF k = 0 THEN 0
  ELSE SumResolved(k - 1, c)
         + (IF ResolvedAt(k) THEN cache_geocode[friends[k].address].val[c] ELSE 0)

\* t is s without the white space at its two ends.
IsTrimOf(t, s) ==
  \E a \in 0..Len(s), b \in 0..Len(s) :
    /\ a + b <= Len(s)
    /\ t = SubSeq(s, a + 1, Len(s) - b)
    /\ \A k \in 1..a : IsSpace(s[k])
    /\ \A k \in (Len(s) - b + 1)..Len(s) : IsSpace(s[k])
    /\ t # << >> => ~IsSpace(t[1]) /\ ~IsSpace(t[Len(t)])

IsBlank(s) == \A k \in 1..Len(s) : IsSpace(s[k])

\* C1: once a run of the page has completed, the friends parameter of the
\* URL is the encoding of the registry when the registry is non-empty and
\* is absent when the registry is empty.
C1_UrlSynchronised ==
  pc = "idle" =>
    /\ friends # << >> => query.present /\ query.value = EncodeFriends(friends)
    /\ friends = << >> => ~query.present

\* C1 happens: a registry of two entries, one seeded from the URL and one
\* added, and the URL carries its encoding.
C1_Witness ==
  /\ pc = "idle"
  /\ Len(friends) = 2
  /\ friends[1].name = JStr(<< >>)
  /\ friends[2].name = JStr(FRIEND)
  /\ query = Param(EncodeFriends(friends))

\* C2: a registry whose entries have non-empty addresses, written to the
\* URL and read back, is the same registry: same length, order, names and
\* addresses.
C2_RoundTrip ==
  (codec_pc = "out" /\ codec_in.mode = "registry") =>
    /\ ~codec_out.raised
    /\ SeedRegistry(codec_out) = codec_in.x
    /\ codec_in.x # << >> => codec_out.some /\ codec_out.val = codec_in.x

\* C2 happens: a registry with an empty name and a name beyond the BMP
\* came back.
C2_Witness ==
  /\ codec_pc = "out"
  /\ codec_in.mode = "registry"
  /\ Len(codec_in.x) = 2
  /\ codec_in.x[1].name = JStr(<< >>)
  /\ codec_in.x[2].name = JStr(<< 128512 >>)
  /\ codec_in.x[2].address = JStr(<< NEWLINE, 8364 >>)
  /\ codec_out.val = codec_in.x

\* An element of a decoded list that is an object with a non-empty address.
NonEmptyValue(v) ==
  CASE v.t = "str"  -> Len(v.s) > 0
    [] v.t = "int"  -> v.n # 0
    [] v.t = "bool" -> v.b
    [] v.t = "list" -> Len(v.items) > 0
    [] v.t = "dict" -> Len(v.pairs) > 0
    [] OTHER        -> FALSE

HasField(e, key) == \E j \in 1..Len(e.pairs) : e.pairs[j].k = key
Field(e, key) == e.pairs[CHOOSE j \in 1..Len(e.pairs) : e.pairs[j].k = key].v

ValidElement(e) ==
  /\ e.t = "dict"
  /\ HasField(e, KEY_ADDRESS)
  /\ NonEmptyValue(Field(e, KEY_ADDRESS))

ValidSet(doc) == { k \in 1..Len(doc.items) : ValidElement(doc.items[k]) }

\* C3: the text of a list decodes to exactly its elements that are objects
\* with a non-empty address, in their order, a missing name read as the
\* empty string; text that is cut short or is no list decodes to nothing;
\* no exception leaves the decoder.
C3_DecodeDefensive ==
  (codec_pc = "out" /\ codec_in.mode = "document") =>
    /\ ~codec_out.raised
    /\ IF codec_in.doc.t = "list" /\ codec_in.cut = 0
       THEN /\ codec_out.some
            /\ Len(codec_out.val) = Cardinality(ValidSet(codec_in.doc))
            /\ \A k \in ValidSet(codec_in.doc) :
                 LET e == codec_in.doc.items[k]
                     f == codec_out.val[Rank(k, ValidSet(codec_in.doc))]
                 IN /\ f.address = Field(e, KEY_ADDRESS)
                    /\ f.name = IF HasField(e, KEY_NAME) THEN Field(e, KEY_NAME)
                                ELSE JStr(<< >>)
       ELSE ~codec_out.some /\ codec_out.val = << >>

\* C3 happens: of an element without a name and an element without an
\* address, the first was kept with the empty name.
C3_Witness ==
  /\ codec_pc = "out"
  /\ codec_in.mode = "document"
  /\ codec_in.cut = 0
  /\ codec_in.doc.t = "list"
  /\ Len(codec_in.doc.items) = 2
  /\ codec_in.doc.items[1] = JDict(<< Pair(KEY_ADDRESS, JStr(<< 233 >>)) >>)
  /\ codec_in.doc.items[2] = JDict(<< Pair(KEY_NAME, JStr(S(<<"B">>))) >>)
  /\ codec_out.val = << Friend(JStr(<< >>), JStr(<< 233 >>)) >>

\* C4: for every address, the geocoding provider is called at most once in
\* the life of the process, whatever the outcome of that call.
C4_AtMostOneProviderCall ==
  \A a \in DOMAIN nominatim_calls : nominatim_calls[a] <= 1

\* C4 happens: two entries of one address were looked up in a run, the
\* provider was called once and failed, and both entries are reported.
C4_Witness ==
  /\ pc = "idle"
  /\ Len(errors) >= 2
  /\ errors[1].address = errors[2].address
  /\ cache_geocode[errors[1].address] = None
  /\ nominatim_calls[errors[1].address] = 1

\* C5: after every run the barycentre is absent when fewer than two
\* entries of the registry geocoded, and is otherwise the mean of the
\* latitudes and of the longitudes of the entries that did.
C5_Barycentre ==
  pc = "idle" =>
    IF Cardinality(ResolvedSet) < 2 THEN barycentre = None
    ELSE /\ barycentre.some
         /\ barycentre.val[1] * Cardinality(ResolvedSet)
              = SumResolved(Len(friends), 1)
         /\ barycentre.val[2] * Cardinality(ResolvedSet)
              = SumResolved(Len(friends), 2)

\* C5 happens: (48.0, 2.0) and (49.0, 3.0) resolved, a third entry did
\* not, and the barycentre is (48.5, 2.5).
C5_Witness ==
  /\ pc = "idle"
  /\ Len(friends) = 3
  /\ Len(errors) = 1
  /\ barycentre = Some(<< 5820, 300 >>)

\* C6: the form's handler appends exactly one entry, holding the trimmed
\* address and the trimmed name (or "Friend" for a blank name), when the
\* address is not blank, and leaves the registry as it is otherwise.
C6_Add ==
  [][ (pc = "start" /\ widget.op = "add") =>
        IF IsBlank(widget.address) THEN friends' = friends
        ELSE /\ Len(friends') = Len(friends) + 1
             /\ SubSeq(friends', 1, Len(friends)) = friends
             /\ friends'[Len(friends')].address.t = "str"
             /\ IsTrimOf(friends'[Len(friends')].address.s, widget.address)
             /\ friends'[Len(friends')].name.t = "str"
             /\ IF IsBlank(widget.name)
                THEN friends'[Len(friends')].name.s = FRIEND
                ELSE IsTrimOf(friends'[Len(friends')].name.s, widget.name)
    ]_vars

\* C6 happens: an entry with the default name and one with a trimmed name
\* have been appended, and a form with a blank address has been handled.
C6_Witness ==
  /\ pc = "idle"
  /\ widget.op = "add"
  /\ IsBlank(widget.address)
  /\ widget.address # << >>
  /\ friends = << Friend(JStr(FRIEND), ADDRESS_P),
                  Friend(JStr(S(<<"A">>)), ADDRESS_L) >>

EmptyNames(fs) == { k \in 1..Len(fs) : ~NonEmptyValue(fs[k].name) }

\* C7, as stated: every entry of the registry has a non-empty name and a
\* non-empty address.
C7_NamesAndAddressesNonEmpty ==
  \A k \in 1..Len(friends) :
    NonEmptyValue(friends[k].name) /\ NonEmptyValue(friends[k].address)

\* C7, amended: every entry of the registry has a non-empty address, and
\* no add, remove or clear makes an entry with an empty name: such an
\* entry is one seeded from the URL.
C7_AddressesNonEmpty ==
  /\ [](\A k \in 1..Len(friends) : NonEmptyValue(friends[k].address))
  /\ [][ has_session =>
           Cardinality(EmptyNames(friends')) <= Cardinality(EmptyNames(friends))
       ]_vars

\* C7 happens: a seeded entry without a name and an added entry with the
\* default name.
C7_Witness ==
  /\ pc = "idle"
  /\ Len(friends) = 2
  /\ friends[1] = Friend(JStr(<< >>), JStr(S(<<"X">>)))
  /\ friends[2].name = JStr(FRIEND)

\* C8: a click on the remove button of index k (from 0) removes exactly
\* the entry at k, the entries before it stay and those after it move down
\* by one; an index past the end changes nothing; no exception ends the run.
C8_RemoveAt ==
  [][ (pc = "start" /\ widget.op = "remove") =>
        /\ pc' # "error"
        /\ IF widget.index >= 0 /\ widget.index < Len(friends)
           THEN /\ Len(friends') = Len(friends) - 1
                /\ \A k \in 1..Len(friends') :
                     friends'[k] = IF k <= widget.index THEN friends[k]
                                   ELSE friends[k + 1]
           ELSE friends' = friends
    ]_vars

\* C8 happens: a click on an index past the end has been handled, the run
\* is over and the registry still holds its entries.
C8_Witness ==
  /\ pc = "idle"
  /\ widget.op = "remove"
  /\ widget.index >= Len(friends)
  /\ Len(friends) = 2

Distance(a, b) == IF a >= b THEN a - b ELSE b - a

\* C9: a response with status Ok and a route gives the first route's
\* distance / 1000 rounded to one decimal and duration / 60 rounded to the
\* nearest integer (5000 m and 600 s: 5.0 km and 10 min); anything else
\* gives None.
C9_RouteMetrics ==
  (route_call.resp.kind # "none" /\ ~route_call.hit) =>
    IF /\ route_call.resp.kind = "json"
       /\ route_call.resp.code = "Ok"
       /\ Len(route_call.resp.routes) >= 1
    THEN /\ route_call.result.some
         /\ Distance(route_call.result.val[1] * 100,
                     route_call.resp.routes[1].distance) <= 50
         /\ Distance(route_call.result.val[2] * 60,
                     route_call.resp.routes[1].duration) <= 30
         /\ (/\ route_call.resp.routes[1].distance = 5000
             /\ route_call.resp.routes[1].duration = 600)
              => route_call.result.val = << 50, 10 >>
    ELSE route_call.result = None

\* C9 happens: 5000 m and 600 s came back as 5.0 km and 10 min.
C9_Witness ==
  /\ ~route_call.hit
  /\ route_call.resp.kind = "json"
  /\ route_call.resp.code = "Ok"
  /\ route_call.resp.routes = << [distance |-> 5000, duration |-> 600] >>
  /\ route_call.result = Some(<< 50, 10 >>)

\* C10: after every run each entry of the registry is in exactly one of
\* geocoded (with its coordinates) and errors, both in the order of the
\* registry, and the travel table has one row for each geocoded entry when
\* there is a barycentre and none otherwise.
C10_Partition ==
  pc = "idle" =>
    /\ Len(geocoded) = Cardinality(ResolvedSet)
    /\ Len(errors) = Cardinality(FailedSet)
    /\ \A k \in ResolvedSet :
         LET g == geocoded[Rank(k, ResolvedSet)] IN
           /\ g.name = friends[k].name
           /\ g.address = friends[k].address
           /\ << g.lat, g.lon >> = cache_geocode[friends[k].address].val
    /\ \A k \in FailedSet : errors[Rank(k, FailedSet)] = friends[k]
    /\ IF barycentre.some
       THEN /\ Len(rows) = Len(geocoded)
            /\ \A j \in 1..Len(rows) : rows[j].name = geocoded[j].name
       ELSE rows = << >>

\* C10 happens: the first entry failed geocoding, the two after it
\* resolved, the routing lookup of the first of them failed and that of
\* the second did not.
C10_Witness ==
  /\ pc = "idle"
  /\ Len(friends) = 3
  /\ errors = << friends[1] >>
  /\ Len(geocoded) = 2
  /\ Len(rows) = 2
  /\ rows[1].route = None
  /\ rows[2].route.some

=============================================================================
